---- MODULE Spec2Model ----
(***************************************************************************)
(* Model of src/index.js: the mTLS forwarding relay for SKAT.              *)
(*                                                                         *)
(* Process scope: CERT_BASE64, CERT_PASSWORD, API_KEY, pfxBuffer,          *)
(* certError (lines 13-40).  Per inbound request: the closure state of the *)
(* http.createServer callback (lines 42-213): req, res, body, proxyReq,    *)
(* proxyRes, responseBody.  One action per handler or event callback.      *)
(*                                                                         *)
(* Strings that the code only compares are TLA+ strings.  Byte buffers are *)
(* sequences of 0..255, JavaScript strings built from buffers are          *)
(* sequences of code points, so `body += chunk` (Buffer -> utf8 string)    *)
(* and res.end(string) (utf8 string -> bytes) are real conversions.        *)
(***************************************************************************)
EXTENDS Integers, Sequences, FiniteSets, TLC

VARIABLES
    CERT_BASE64,    \* process.env.OCES3_CERTIFICATE_BASE64 (sequence of characters)
    CERT_PASSWORD,  \* process.env.OCES3_CERTIFICATE_PASSWORD
    API_KEY,        \* process.env.PROXY_API_KEY
    pfxBuffer,      \* decoded credential bundle, or NullBuf
    certError,      \* the LoadError, or Null
    rq,             \* per connection: the request in progress and its closure state
    attempts        \* number of https.request calls made since startup

vars == <<CERT_BASE64, CERT_PASSWORD, API_KEY, pfxBuffer, certError,
          rq, attempts>>

config == <<CERT_BASE64, CERT_PASSWORD, API_KEY, pfxBuffer, certError>>

-----------------------------------------------------------------------------
(* Bounds of the model. *)

\* longest inbound request body, in bytes
MaxInBody == 1
\* longest upstream response body, in bytes
MaxUpBody == 2
\* number of https.request calls after which no new inbound request is taken
MaxAttempts == 2

-----------------------------------------------------------------------------
(* JavaScript values. *)

\* `undefined` for a string-valued variable or header
Undefined == "undefined"
\* `null` for a string-valued variable
Null == "null"
\* an unset environment variable holding a character sequence
UnsetSeq == <<"undefined">>
\* `null` where a character sequence is expected
NullSeq == <<"null">>
\* `null` for pfxBuffer
NullBuf == <<-1>>

\* JavaScript truthiness of a string: undefined, null and '' are falsy
Truthy(s) == s # Undefined /\ s # Null /\ s # ""
\* truthiness of a character sequence read from the environment
TruthySeq(s) == s # UnsetSeq /\ s # NullSeq /\ s # <<>>
\* truthiness of pfxBuffer: null is falsy, every Buffer (even empty) is truthy
TruthyBuf(b) == b # NullBuf

SKAT_HOST == "ei-indberetning.skat.dk"
SKAT_PORT == 444
\* the default upstream path of line 126, as one unit of a character sequence
DefaultSkatPath == <<"/B2B/EIndkomst/EIndkomstServiceFunctionBinding">>

-----------------------------------------------------------------------------
(* Buffer.from(str, 'base64'), line 26.  Node's decoder never throws: it   *)
(* stops at the first '=', skips characters outside the alphabet, and      *)
(* drops a trailing group that holds fewer than 8 bits.                    *)

\* value of a base64 character (the part of the alphabet the inputs use)
B64Index(c) ==
    CASE c = "A" -> 0
      [] c = "I" -> 8
      [] c = "M" -> 12
      [] c = "Q" -> 16
      [] OTHER -> -1

RECURSIVE B64Sextets(_)
B64Sextets(s) ==
    IF s = <<>> \/ Head(s) = "=" THEN <<>>
    ELSE IF B64Index(Head(s)) < 0 THEN B64Sextets(Tail(s))
    ELSE <<B64Index(Head(s))>> \o B64Sextets(Tail(s))

RECURSIVE B64Bytes(_)
B64Bytes(x) ==
    IF Len(x) >= 4 THEN
        << (x[1] * 4) + (x[2] \div 16),
           ((x[2] % 16) * 16) + (x[3] \div 4),
           ((x[3] % 4) * 64) + x[4] >> \o B64Bytes(SubSeq(x, 5, Len(x)))
    ELSE IF Len(x) = 3 THEN
        << (x[1] * 4) + (x[2] \div 16), ((x[2] % 16) * 16) + (x[3] \div 4) >>
    ELSE IF Len(x) = 2 THEN
        << (x[1] * 4) + (x[2] \div 16) >>
    ELSE <<>>

BufferFromBase64(s) == B64Bytes(B64Sextets(s))

-----------------------------------------------------------------------------
(* Buffer -> string (utf8) and string -> Buffer (utf8), lines 115, 155,    *)
(* 165, 192.  Decoding replaces every malformed byte by U+FFFD.  One- and  *)
(* two-byte sequences are decoded; the byte alphabet of the model holds no *)
(* lead byte of a longer sequence.                                         *)

ReplacementChar == 65533

IsContinuation(b) == b >= 128 /\ b <= 191
IsLead2(b) == b >= 194 /\ b <= 223

RECURSIVE Utf8Decode(_)
Utf8Decode(b) ==
    IF b = <<>> THEN <<>>
    ELSE IF Head(b) < 128 THEN <<Head(b)>> \o Utf8Decode(Tail(b))
    ELSE IF IsLead2(Head(b)) /\ Len(b) >= 2 /\ IsContinuation(b[2])
         THEN <<((Head(b) - 192) * 64) + (b[2] - 128)>> \o Utf8Decode(Tail(Tail(b)))
    ELSE <<ReplacementChar>> \o Utf8Decode(Tail(b))

RECURSIVE Utf8Encode(_)
Utf8Encode(s) ==
    IF s = <<>> THEN <<>>
    ELSE LET c == Head(s) IN
         (IF c < 128 THEN <<c>>
          ELSE IF c < 2048 THEN <<192 + (c \div 64), 128 + (c % 64)>>
          ELSE <<224 + (c \div 4096), 128 + ((c \div 64) % 64), 128 + (c % 64)>>)
         \o Utf8Encode(Tail(s))

\* Buffer.byteLength(str, 'utf8'), line 144
ByteLength(s) == Len(Utf8Encode(s))

-----------------------------------------------------------------------------
(* Startup, lines 13-40. *)

\* a credential bundle as it is configured: base64 of the bytes 30 82
GoodBase64 == <<"M", "I", "I", "=">>
\* the passphrase that opens the bundle
GoodPassword == "pw"

CertBase64Values == {UnsetSeq, <<>>, GoodBase64, <<"!", "!">>}
CertPasswordValues == {Undefined, GoodPassword, "bad"}
ApiKeyValues == {Undefined, "", "abc"}

\* lines 21, 24-35: pfxBuffer after the startup block.  Buffer.from never
\* throws, so the catch branch of line 28 is not taken.
LoadPfxBuffer(certBase64) ==
    IF TruthySeq(certBase64) THEN BufferFromBase64(certBase64) ELSE NullBuf

\* the missing passphrase is logged but not recorded
LoadCertErrorBundleOnly(certBase64, certPassword) ==
    IF TruthySeq(certBase64) THEN Null ELSE "OCES3_CERTIFICATE_BASE64 not set"

\* lines 22, 24-40: certError after the startup block
LoadCertError(certBase64, certPassword) ==
    LET afterCert == IF TruthySeq(certBase64) THEN Null
                     ELSE "OCES3_CERTIFICATE_BASE64 not set"
    IN  IF ~Truthy(certPassword)
        THEN (IF Truthy(afterCert) THEN afterCert
              ELSE "OCES3_CERTIFICATE_PASSWORD not set")
        ELSE afterCert

-----------------------------------------------------------------------------
(* Inbound requests. *)

\* the connections of the model; the requests of a connection follow one
\* another, each in a fresh closure
Conns == {1}

Slash == "/"
PathHealth == <<Slash, "h", "e", "a", "l", "t", "h">>
PathDebug == <<Slash, "d", "e", "b", "u", "g">>
PathProxy == <<Slash, "p", "r", "o", "x", "y">>
PathProxyZ == PathProxy \o <<"z">>
PathOther == <<Slash, "x">>

\* the value of a `path` query parameter, decoded, as characters
CustomPath == <<Slash, "c">>
SpacedPath == <<Slash, " ">>

NoSearch == <<>>
Param(k, v) == <<[k |-> k, v |-> v]>>

\* req.url: the pathname characters and the decoded query parameters
Url(path, search) == [path |-> path, search |-> search]
NoUrl == Url(<<>>, NoSearch)

Urls ==
    { Url(PathHealth, NoSearch), Url(PathDebug, NoSearch),
      Url(PathProxy, NoSearch),
      Url(PathProxy, Param("path", CustomPath)),
      Url(PathProxy, Param("path", SpacedPath)),
      Url(PathProxy, Param("path", <<>>)),
      Url(PathProxyZ, NoSearch),
      Url(PathOther, NoSearch) }

Methods == {"OPTIONS", "GET", "POST"}
SuppliedKeys == {Undefined, "abc", "wrong"}
Hosts == {"relay.local", "bad host"}
\* the content-type and soapaction headers of a request: both absent, or
\* both as the documented caller sends them
HeaderProfiles == { <<Undefined, Undefined>>, <<"text/xml", "eIncomeExtractAttached">> }

\* the body bytes the model draws chunks from: 'A', and the two bytes of U+00E9
Bytes == {65, 195, 169}

\* non-empty sequences, of length at most n, of bytes of the given set
ChunksOver(bytes, n) == UNION { [1..k -> bytes] : k \in 1..n }

\* non-empty byte sequences of length at most n
ChunksUpTo(n) == ChunksOver(Bytes, n)

\* String.prototype.startsWith over the characters of req.url; a prefix
\* without '?' can only match inside the pathname
StartsWith(url, prefix) ==
    /\ Len(url.path) >= Len(prefix)
    /\ SubSeq(url.path, 1, Len(prefix)) = prefix

\* req.url === '/health'
UrlIs(url, path) == url.path = path /\ url.search = NoSearch

\* URLSearchParams.get(name): the first value for the name, or null
RECURSIVE SearchGet(_, _)
SearchGet(search, name) ==
    IF search = <<>> THEN NullSeq
    ELSE IF Head(search).k = name THEN Head(search).v
    ELSE SearchGet(Tail(search), name)

-----------------------------------------------------------------------------
(* Responses written to the caller. *)

corsHeaders ==
    [ allowOrigin  |-> "*",
      allowMethods |-> "POST, GET, OPTIONS",
      allowHeaders |-> "Content-Type, Authorization, X-API-Key, SOAPAction" ]

\* a JSON body; a field the object does not carry holds Undefined
\* (hasCertificate, hasPassword, hasApiKey: FALSE; certSize: 0)
NoJson ==
    [ error |-> Undefined, details |-> Undefined, code |-> Undefined,
      status |-> Undefined, method |-> Undefined, url |-> NoUrl,
      hasCertificate |-> FALSE, hasPassword |-> FALSE, hasApiKey |-> FALSE,
      certSize |-> 0, skatHost |-> Undefined, skatPort |-> 0 ]

\* what res.writeHead + res.end put on the wire
Response(statusCode, contentType, json, bytes) ==
    [ statusCode |-> statusCode, cors |-> corsHeaders,
      contentType |-> contentType, json |-> json, bytes |-> bytes ]

NoResponse == Response(0, Undefined, NoJson, <<>>)

\* lines 51-54: what sendJson writes
JsonResponse(statusCode, data) ==
    Response(statusCode, "application/json", data, <<>>)

-----------------------------------------------------------------------------
(* The closure state of one request: lines 42-213. *)

Headers(key, host, contentType, soapAction) ==
    [ xApiKey |-> key, host |-> host, contentType |-> contentType,
      soapaction |-> soapAction ]

NoHeaders == Headers(Undefined, Undefined, Undefined, Undefined)

\* the options of lines 135-149 and the payload of line 192, as sent
NoOutbound ==
    [ hostname |-> Undefined, port |-> 0, path |-> NullSeq, method |-> Undefined,
      pfx |-> NullBuf, passphrase |-> Undefined, contentType |-> Undefined,
      contentLength |-> 0, soapAction |-> Undefined,
      rejectUnauthorized |-> FALSE, minVersion |-> Undefined, payload |-> <<>> ]

\* pc: "idle"       no request on the connection yet
\*     "collecting" listeners of lines 115-122 registered, inbound body arriving
\*     "sent"       https.request returned, lines 151-193 done, no upstream answer yet
\*     "responding" the response callback of line 151 ran, upstream body arriving
\*     "draining"   upstream socket failed mid-body, a close-delimited body still ends
\*     "aborted"    upstream closed mid-body: proxyRes is destroyed, no event follows
\*     "closed"     no further event of this request
IdleRequest ==
    [ pc |-> "idle", method |-> Undefined, url |-> NoUrl, headers |-> NoHeaders,
      inBytes |-> <<>>, body |-> <<>>, inErr |-> FALSE, ended |-> FALSE,
      threw |-> Undefined, calls |-> 0, out |-> NoOutbound,
      upStatus |-> 0, upContentType |-> Undefined, upBytes |-> <<>>,
      responseBody |-> <<>>, upErr |-> Undefined,
      res |-> NoResponse, writeHeads |-> 0, uncaught |-> 0 ]

\* res.writeHead(...); res.end(...): the first call puts the response on the
\* wire; a later writeHead throws ERR_HTTP_HEADERS_SENT out of the handler,
\* which only process.on('uncaughtException') (line 216) sees
Write(r, response) ==
    IF r.res = NoResponse
    THEN [r EXCEPT !.res = response, !.writeHeads = @ + 1]
    ELSE [r EXCEPT !.writeHeads = @ + 1, !.uncaught = @ + 1]

\* lines 51-54
sendJson(r, statusCode, data) == Write(r, JsonResponse(statusCode, data))

-----------------------------------------------------------------------------
(* The request gate: the synchronous part of the server callback,          *)
(* lines 56-111.                                                           *)

\* status derived from the bundle alone
HealthJsonByCertificate ==
    [ NoJson EXCEPT
        !.status = IF TruthyBuf(pfxBuffer) THEN "ok" ELSE "degraded",
        !.hasCertificate = TruthyBuf(pfxBuffer),
        !.hasPassword = Truthy(CERT_PASSWORD),
        !.certSize = IF TruthyBuf(pfxBuffer) THEN Len(pfxBuffer) ELSE 0,
        !.error = IF Truthy(certError) THEN certError ELSE Undefined ]

\* lines 65-72
HealthJson ==
    [ NoJson EXCEPT
        !.status = IF Truthy(certError) THEN "degraded" ELSE "ok",
        !.hasCertificate = TruthyBuf(pfxBuffer),
        !.hasPassword = Truthy(CERT_PASSWORD),
        !.certSize = IF TruthyBuf(pfxBuffer) THEN Len(pfxBuffer) ELSE 0,
        !.error = IF Truthy(certError) THEN certError ELSE Undefined ]

\* lines 77-88
DebugJson ==
    [ NoJson EXCEPT
        !.status = "ok",
        !.hasCertificate = TruthyBuf(pfxBuffer),
        !.hasPassword = Truthy(CERT_PASSWORD),
        !.hasApiKey = Truthy(API_KEY),
        !.certSize = IF TruthyBuf(pfxBuffer) THEN Len(pfxBuffer) ELSE 0,
        !.skatHost = SKAT_HOST,
        !.skatPort = SKAT_PORT,
        !.error = IF Truthy(certError) THEN certError ELSE Undefined ]

\* preflight honoured only when no API key is configured
IsPreflightOnlyWithoutKey(method) == method = "OPTIONS" /\ ~Truthy(API_KEY)
\* line 58
IsPreflight(method) == method = "OPTIONS"
\* lines 64, 76
IsHealth(method, url) == UrlIs(url, PathHealth) /\ method = "GET"
IsDebug(method, url) == UrlIs(url, PathDebug) /\ method = "GET"
\* a request without the header is let through
KeyRejectedOnlyWhenSupplied(key) ==
    Truthy(API_KEY) /\ Truthy(key) /\ key # API_KEY
\* line 93
KeyRejected(key) == Truthy(API_KEY) /\ key # API_KEY
\* `&&` in place of `||`
NotRoutableBoth(method, url) == method # "POST" /\ ~StartsWith(url, PathProxy)
\* line 99
NotRoutable(method, url) == method # "POST" \/ ~StartsWith(url, PathProxy)
\* the bundle is not checked
CertNotReadyPasswordOnly == ~Truthy(CERT_PASSWORD)
\* line 105
CertNotReady == ~TruthyBuf(pfxBuffer) \/ ~Truthy(CERT_PASSWORD)

\* the credential check placed before the routing check
GateCertBeforeRouting(r) ==
    IF IsPreflight(r.method)
        THEN [Write(r, Response(200, Undefined, NoJson, <<>>)) EXCEPT !.pc = "closed"]
    ELSE IF IsHealth(r.method, r.url)
        THEN [sendJson(r, 200, HealthJson) EXCEPT !.pc = "closed"]
    ELSE IF IsDebug(r.method, r.url)
        THEN [sendJson(r, 200, DebugJson) EXCEPT !.pc = "closed"]
    ELSE IF KeyRejected(r.headers.xApiKey)
        THEN [sendJson(r, 401,
                [NoJson EXCEPT !.error = "Unauthorized - Invalid API key"])
              EXCEPT !.pc = "closed"]
    ELSE IF CertNotReady
        THEN [sendJson(r, 500,
                [NoJson EXCEPT !.error = "Certificate not configured",
                               !.details = IF Truthy(certError) THEN certError
                                           ELSE "Missing certificate or password"])
              EXCEPT !.pc = "closed"]
    ELSE IF NotRoutable(r.method, r.url)
        THEN [sendJson(r, 405,
                [NoJson EXCEPT !.error = "Method not allowed",
                               !.method = r.method, !.url = r.url])
              EXCEPT !.pc = "closed"]
    ELSE [r EXCEPT !.pc = "collecting"]

\* lines 56-122: the request after the server callback returned
Gate(r) ==
    IF IsPreflight(r.method)
        THEN [Write(r, Response(200, Undefined, NoJson, <<>>)) EXCEPT !.pc = "closed"]
    ELSE IF IsHealth(r.method, r.url)
        THEN [sendJson(r, 200, HealthJson) EXCEPT !.pc = "closed"]
    ELSE IF IsDebug(r.method, r.url)
        THEN [sendJson(r, 200, DebugJson) EXCEPT !.pc = "closed"]
    ELSE IF KeyRejected(r.headers.xApiKey)
        THEN [sendJson(r, 401,
                [NoJson EXCEPT !.error = "Unauthorized - Invalid API key"])
              EXCEPT !.pc = "closed"]
    ELSE IF NotRoutable(r.method, r.url)
        THEN [sendJson(r, 405,
                [NoJson EXCEPT !.error = "Method not allowed",
                               !.method = r.method, !.url = r.url])
              EXCEPT !.pc = "closed"]
    ELSE IF CertNotReady
        THEN [sendJson(r, 500,
                [NoJson EXCEPT !.error = "Certificate not configured",
                               !.details = IF Truthy(certError) THEN certError
                                           ELSE "Missing certificate or password"])
              EXCEPT !.pc = "closed"]
    ELSE [r EXCEPT !.pc = "collecting"]

\* the response is on the wire and no event of the request is pending: the
\* closure is dropped and the connection is free for the next request
Finish(c) ==
    /\ rq[c].pc = "closed"
    /\ rq[c].res # NoResponse
    /\ rq' = [rq EXCEPT ![c] = IdleRequest]
    /\ UNCHANGED <<config, attempts>>

\* the server callback of line 42 runs for a new inbound request, whose
\* method, url and headers are drawn from the given sets
RequestFrom(c, methods, urls, keys, hosts, profiles) ==
    /\ attempts < MaxAttempts
    /\ rq[c].pc = "idle"
    /\ \E method \in methods, url \in urls, key \in keys, host \in hosts,
          profile \in profiles :
          rq' = [rq EXCEPT ![c] =
                    Gate([IdleRequest EXCEPT
                            !.method = method, !.url = url,
                            !.headers = Headers(key, host, profile[1], profile[2])])]
    /\ UNCHANGED <<config, attempts>>

\* the server callback of line 42 runs for a new inbound request
Request(c) ==
    RequestFrom(c, Methods, Urls, SuppliedKeys, Hosts, HeaderProfiles)

\* the same callback, for the requests of the two-connection specification
ConcurrentRequest(c) ==
    RequestFrom(c, {"GET", "POST"},
                { Url(PathHealth, NoSearch), Url(PathProxy, NoSearch) },
                {"abc", "wrong"}, {"relay.local"},
                { <<"text/xml", "eIncomeExtractAttached">> })

-----------------------------------------------------------------------------
(* Body collection, lines 113-120. *)

\* line 115: req 'data' with one of the given chunks; `body += chunk`
\* appends chunk.toString()
InDataFrom(c, chunks) ==
    /\ rq[c].pc = "collecting"
    /\ \E chunk \in chunks :
          rq' = [rq EXCEPT ![c].inBytes = @ \o chunk,
                           ![c].body = @ \o Utf8Decode(chunk)]
    /\ UNCHANGED <<config, attempts>>

\* line 115: req 'data'
InData(c) == InDataFrom(c, ChunksUpTo(MaxInBody - Len(rq[c].inBytes)))

\* the same callback, for the bodies of the two-connection specification
ConcurrentInData(c) ==
    InDataFrom(c, ChunksOver({65, 195}, MaxInBody - Len(rq[c].inBytes)))

\* the inbound error is also recorded in the process-scope certError
InErrorRecordsCertError(c) ==
    /\ rq[c].pc = "collecting"
    /\ rq' = [rq EXCEPT ![c] =
                [sendJson(rq[c], 400,
                    [NoJson EXCEPT !.error = "Request error", !.details = "aborted"])
                 EXCEPT !.inErr = TRUE, !.pc = "closed"]]
    /\ certError' = "aborted"
    /\ UNCHANGED <<CERT_BASE64, CERT_PASSWORD, API_KEY, pfxBuffer, attempts>>

\* lines 117-120: req 'error'; the stream is destroyed, 'end' does not follow
InError(c) ==
    /\ rq[c].pc = "collecting"
    /\ rq' = [rq EXCEPT ![c] =
                [sendJson(rq[c], 400,
                    [NoJson EXCEPT !.error = "Request error", !.details = "aborted"])
                 EXCEPT !.inErr = TRUE, !.pc = "closed"]]
    /\ UNCHANGED <<config, attempts>>

-----------------------------------------------------------------------------
(* Forwarding, lines 122-203. *)

\* the bundle GoodBase64 decodes to
GoodPfx == <<48, 130>>

\* e.message of the errors the runtime raises, by e.code
Message(code) ==
    CASE code = "ERR_OSSL_PKCS12_MAC_VERIFY_FAILURE" -> "mac verify failure"
      [] code = "ERR_OSSL_PKCS12_PKCS12_PFX_PDU_PARSING_ERROR" -> "pkcs12 pfx pdu parsing error"
      [] code = "ECONNREFUSED" -> "connect ECONNREFUSED"
      [] code = "ETIMEDOUT" -> "connect ETIMEDOUT"
      [] code = "ECONNRESET" -> "read ECONNRESET"
      [] code = "ERR_INVALID_URL" -> "Invalid URL"
      [] code = "ERR_UNESCAPED_CHARACTERS" -> "Request path contains unescaped characters"
      [] OTHER -> Undefined

\* `new URL(req.url, 'http://' + host)` (line 125) throws on a host that is
\* no valid authority
UrlThrows(host) == host = "bad host"

\* https.request (line 151) throws ERR_UNESCAPED_CHARACTERS on a path with a
\* character outside !-ÿ
HasUnescapedChar(path) == \E i \in 1..Len(path) : path[i] = " "

\* what loading options.pfx with options.passphrase fails with, if it does
CredentialProblem(pfx, passphrase) ==
    IF pfx # GoodPfx THEN "ERR_OSSL_PKCS12_PKCS12_PFX_PDU_PARSING_ERROR"
    ELSE IF passphrase # GoodPassword THEN "ERR_OSSL_PKCS12_MAC_VERIFY_FAILURE"
    ELSE Undefined

\* the query parameter is not consulted
SkatPathAlwaysDefault(url) == DefaultSkatPath

\* line 126
SkatPath(url) ==
    LET p == SearchGet(url.search, "path")
    IN  IF TruthySeq(p) THEN p ELSE DefaultSkatPath

\* lines 127, 135-149, and the payload of line 192
Options(r) ==
    [ hostname |-> SKAT_HOST, port |-> SKAT_PORT, path |-> SkatPath(r.url),
      method |-> "POST", pfx |-> pfxBuffer, passphrase |-> CERT_PASSWORD,
      contentType |-> IF Truthy(r.headers.contentType) THEN r.headers.contentType
                      ELSE "text/xml; charset=utf-8",
      contentLength |-> ByteLength(r.body),
      soapAction |-> IF Truthy(r.headers.soapaction) THEN r.headers.soapaction ELSE "",
      rejectUnauthorized |-> TRUE, minVersion |-> "TLSv1.2",
      payload |-> Utf8Encode(r.body) ]

\* the request is issued a second time
CallHttpsRequestTwice(r) == [r EXCEPT !.calls = @ + 2]

\* line 151: https.request is called once
CallHttpsRequest(r) == [r EXCEPT !.calls = @ + 1]

\* the inner catch answers like the proxyReq 'error' handler
InnerCatchAs502(r, code) ==
    [sendJson(r, 502,
        [NoJson EXCEPT !.error = "Failed to connect to SKAT", !.details = Message(code)])
     EXCEPT !.threw = code, !.pc = "closed"]

\* lines 195-202: the inner catch
InnerCatch(r, code) ==
    [sendJson(r, 500,
        [NoJson EXCEPT !.error = "Internal proxy error", !.details = Message(code)])
     EXCEPT !.threw = code, !.pc = "closed"]

\* lines 122-203: req 'end'.  https.request is called unless new URL threw.
\* A credential the TLS layer cannot load makes https.request throw, or, in
\* runtimes that defer it, fail later through proxyReq's 'error' event.
InEnd(c) ==
    /\ rq[c].pc = "collecting"
    /\ LET r == [rq[c] EXCEPT !.ended = TRUE] IN
       IF UrlThrows(r.headers.host)
       THEN /\ rq' = [rq EXCEPT ![c] = InnerCatch(r, "ERR_INVALID_URL")]
            /\ UNCHANGED attempts
       ELSE /\ attempts' = attempts + 1
            /\ LET opts == Options(r)
                   bad == CredentialProblem(opts.pfx, opts.passphrase)
                   called == CallHttpsRequest(r)
               IN  IF HasUnescapedChar(opts.path)
                   THEN rq' = [rq EXCEPT ![c] =
                                  InnerCatch(called, "ERR_UNESCAPED_CHARACTERS")]
                   ELSE \/ /\ bad # Undefined
                           /\ rq' = [rq EXCEPT ![c] = InnerCatch(called, bad)]
                        \/ rq' = [rq EXCEPT ![c] =
                                     [called EXCEPT !.out = opts, !.pc = "sent"]]
    /\ UNCHANGED config

\* the status and content-type the upstream answers with
UpAnswers == { <<200, "application/soap+xml">>, <<500, Undefined>> }

\* failures of the connection or handshake, before any response
ConnectCodes == {"ECONNREFUSED", "ETIMEDOUT", "ECONNRESET"}
\* failures of the socket once the response has started
MidStreamCodes == {"ECONNRESET"}

\* line 151-155: the response callback runs when the upstream's headers arrive
UpHeaders(c) ==
    /\ rq[c].pc = "sent"
    /\ CredentialProblem(rq[c].out.pfx, rq[c].out.passphrase) = Undefined
    /\ \E answer \in UpAnswers :
          rq' = [rq EXCEPT ![c].upStatus = answer[1],
                           ![c].upContentType = answer[2],
                           ![c].pc = "responding"]
    /\ UNCHANGED <<config, attempts>>

\* the response is written to the caller as soon as a chunk arrives
UpDataRelaysAtOnce(c, chunks) ==
    /\ rq[c].pc = "responding"
    /\ \E chunk \in chunks :
          LET r == [rq[c] EXCEPT !.upBytes = @ \o chunk,
                                 !.responseBody = @ \o Utf8Decode(chunk)]
          IN  rq' = [rq EXCEPT ![c] =
                        Write(r, Response(r.upStatus,
                                    IF Truthy(r.upContentType) THEN r.upContentType
                                    ELSE "text/xml",
                                    NoJson, Utf8Encode(r.responseBody)))]
    /\ UNCHANGED <<config, attempts>>

\* line 155: proxyRes 'data' with one of the given chunks;
\* `responseBody += chunk`
UpDataFrom(c, chunks) ==
    /\ rq[c].pc = "responding"
    /\ \E chunk \in chunks :
          rq' = [rq EXCEPT ![c].upBytes = @ \o chunk,
                           ![c].responseBody = @ \o Utf8Decode(chunk)]
    /\ UNCHANGED <<config, attempts>>

\* line 155: proxyRes 'data'
UpData(c) == UpDataFrom(c, ChunksUpTo(MaxUpBody - Len(rq[c].upBytes)))

\* the same callback, for the bodies of the two-connection specification
ConcurrentUpData(c) ==
    UpDataFrom(c, ChunksOver({65}, MaxUpBody - Len(rq[c].upBytes)))

\* the relayed head carries the content-type only
RelayWithoutCors(r) ==
    [ Response(r.upStatus,
               IF Truthy(r.upContentType) THEN r.upContentType ELSE "text/xml",
               NoJson, Utf8Encode(r.responseBody))
      EXCEPT !.cors = [ allowOrigin |-> Undefined, allowMethods |-> Undefined,
                        allowHeaders |-> Undefined ] ]

\* lines 161-165: what the relay writes
Relay(r) ==
    Response(r.upStatus,
             IF Truthy(r.upContentType) THEN r.upContentType ELSE "text/xml",
             NoJson, Utf8Encode(r.responseBody))

\* lines 157-166: proxyRes 'end'
UpEnd(c) ==
    /\ rq[c].pc \in {"responding", "draining"}
    /\ rq' = [rq EXCEPT ![c] = [Write(rq[c], Relay(rq[c])) EXCEPT !.pc = "closed"]]
    /\ UNCHANGED <<config, attempts>>

\* the timeout branch tests the wrong code
ErrorMessageTimeoutMissed(code, message) ==
    IF code = "ERR_OSSL_PKCS12_MAC_VERIFY_FAILURE"
        THEN "Certificate password is incorrect"
    ELSE IF code = "ERR_OSSL_PKCS12_PKCS12_PFX_PDU_PARSING_ERROR"
        THEN "Certificate file is corrupted or invalid"
    ELSE IF code = "ECONNREFUSED" THEN "Connection refused by SKAT server"
    ELSE IF code = "ETIMEOUT" THEN "Connection to SKAT timed out"
    ELSE message

\* lines 174-183
ErrorMessage(code, message) ==
    IF code = "ERR_OSSL_PKCS12_MAC_VERIFY_FAILURE"
        THEN "Certificate password is incorrect"
    ELSE IF code = "ERR_OSSL_PKCS12_PKCS12_PFX_PDU_PARSING_ERROR"
        THEN "Certificate file is corrupted or invalid"
    ELSE IF code = "ECONNREFUSED" THEN "Connection refused by SKAT server"
    ELSE IF code = "ETIMEDOUT" THEN "Connection to SKAT timed out"
    ELSE message

\* lines 169-190: what the proxyReq 'error' handler does
OnProxyReqError(r, code) ==
    [sendJson(r, 502,
        [NoJson EXCEPT !.error = "Failed to connect to SKAT",
                       !.details = ErrorMessage(code, Message(code)),
                       !.code = code])
     EXCEPT !.upErr = code]

\* proxyReq 'error' before the upstream answered
UpErrorEarly(c) ==
    /\ rq[c].pc = "sent"
    /\ LET bad == CredentialProblem(rq[c].out.pfx, rq[c].out.passphrase)
       IN  \E code \in (IF bad # Undefined THEN {bad} ELSE ConnectCodes) :
              rq' = [rq EXCEPT ![c] =
                        [OnProxyReqError(rq[c], code) EXCEPT !.pc = "closed"]]
    /\ UNCHANGED <<config, attempts>>

\* proxyReq 'error' after the response callback ran: the socket failed
\* mid-body.  proxyRes is destroyed, or, when its body is delimited by the
\* end of the connection, still emits 'end'.
UpErrorLate(c) ==
    /\ rq[c].pc = "responding"
    /\ \E code \in MidStreamCodes, next \in {"closed", "draining"} :
          rq' = [rq EXCEPT ![c] =
                    [OnProxyReqError(rq[c], code) EXCEPT !.pc = next]]
    /\ UNCHANGED <<config, attempts>>

\* the upstream closes the connection mid-body without a socket error:
\* proxyRes emits 'aborted' and 'close', for which no handler is registered,
\* and proxyReq emits no 'error'
UpAbort(c) ==
    /\ rq[c].pc = "responding"
    /\ rq' = [rq EXCEPT ![c].pc = "aborted"]
    /\ UNCHANGED <<config, attempts>>

-----------------------------------------------------------------------------
(* Specifications. *)

Init ==
    /\ CERT_BASE64 \in CertBase64Values
    /\ CERT_PASSWORD \in CertPasswordValues
    /\ API_KEY \in ApiKeyValues
    /\ pfxBuffer = LoadPfxBuffer(CERT_BASE64)
    /\ certError = LoadCertError(CERT_BASE64, CERT_PASSWORD)
    /\ rq = [c \in Conns |-> IdleRequest]
    /\ attempts = 0

Next ==
    \E c \in Conns :
        \/ Request(c)
        \/ InData(c)
        \/ InError(c)
        \/ InEnd(c)
        \/ UpHeaders(c)
        \/ UpData(c)
        \/ UpEnd(c)
        \/ UpErrorEarly(c)
        \/ UpErrorLate(c)
        \/ UpAbort(c)
        \/ Finish(c)

Spec == Init /\ [][Next]_vars

\* Two connections in flight at once: the event callbacks of the two requests
\* interleave freely, as the event loop runs them.  The configuration and the
\* requests are drawn from smaller sets than in Spec.
Conns2 == {1, 2}

Init2 ==
    /\ CERT_BASE64 \in {UnsetSeq, GoodBase64}
    /\ CERT_PASSWORD \in {GoodPassword, "bad"}
    /\ API_KEY = "abc"
    /\ pfxBuffer = LoadPfxBuffer(CERT_BASE64)
    /\ certError = LoadCertError(CERT_BASE64, CERT_PASSWORD)
    /\ rq = [c \in Conns2 |-> IdleRequest]
    /\ attempts = 0

Next2 ==
    \E c \in Conns2 :
        \/ ConcurrentRequest(c)
        \/ ConcurrentInData(c)
        \/ InError(c)
        \/ InEnd(c)
        \/ UpHeaders(c)
        \/ ConcurrentUpData(c)
        \/ UpEnd(c)
        \/ UpErrorEarly(c)
        \/ UpErrorLate(c)
        \/ UpAbort(c)
        \/ Finish(c)

Spec2 == Init2 /\ [][Next2]_vars

-----------------------------------------------------------------------------
(* Properties. *)

\* a request is on the connection: the server callback has run for it
Present(r) == r.pc # "idle"

\* the request carries a key other than the configured, non-empty one
KeyMismatch(r) ==
    API_KEY # Undefined /\ API_KEY # "" /\ r.headers.xApiKey # API_KEY

\* the request is answered by the preflight or a diagnostics branch
Ungated(r) ==
    \/ r.method = "OPTIONS"
    \/ r.method = "GET" /\ r.url = Url(PathHealth, NoSearch)
    \/ r.method = "GET" /\ r.url = Url(PathDebug, NoSearch)

\* no outbound connection attempt was made for the request
NoOutboundAttempt(r) == r.calls = 0 /\ r.out = NoOutbound /\ ~r.ended

Unauthorized ==
    JsonResponse(401, [NoJson EXCEPT !.error = "Unauthorized - Invalid API key"])

\* C1 as stated: every request, of any method and path, whose key differs
\* from the configured non-empty key is answered 401, with no outbound attempt.
C1_AnyMismatchIs401 ==
    \A c \in Conns :
        Present(rq[c]) /\ KeyMismatch(rq[c])
            => rq[c].res.statusCode = 401 /\ NoOutboundAttempt(rq[c])

\* C1 amended: a request whose key differs from the configured non-empty key
\* never causes an outbound attempt, and is answered 401 unless it is an
\* OPTIONS request, GET /health or GET /debug (answered before the key check).
C1_MismatchIs401UnlessUngated ==
    \A c \in Conns :
        Present(rq[c]) /\ KeyMismatch(rq[c])
            => /\ NoOutboundAttempt(rq[c])
               /\ rq[c].pc = "closed"
               /\ ~Ungated(rq[c]) => rq[c].res = Unauthorized

C1_Witness ==
    \E c \in Conns :
        /\ API_KEY = "abc" /\ rq[c].headers.xApiKey = "wrong"
        /\ rq[c].method = "POST" /\ rq[c].url = Url(PathProxy, NoSearch)
        /\ pfxBuffer = GoodPfx /\ CERT_PASSWORD = GoodPassword
        /\ rq[c].res = Unauthorized

CertNotConfigured ==
    JsonResponse(500, [NoJson EXCEPT !.error = "Certificate not configured",
                                     !.details = certError])

\* C2 as stated: every request to /proxy made while no credential is loaded
\* is answered 500, with no outbound attempt.
C2_AnyProxyRequestIs500 ==
    \A c \in Conns :
        Present(rq[c]) /\ StartsWith(rq[c].url, PathProxy) /\ pfxBuffer = NullBuf
            => rq[c].res.statusCode = 500 /\ NoOutboundAttempt(rq[c])

\* C2 amended: while no credential is loaded, no request to /proxy causes an
\* outbound attempt, and a POST to /proxy that passes the API-key check is
\* answered 500 'Certificate not configured'.
C2_PostProxyIs500 ==
    \A c \in Conns :
        Present(rq[c]) /\ StartsWith(rq[c].url, PathProxy) /\ pfxBuffer = NullBuf
            => /\ NoOutboundAttempt(rq[c])
               /\ rq[c].pc = "closed"
               /\ rq[c].method = "POST" /\ ~KeyMismatch(rq[c])
                    => rq[c].res = CertNotConfigured

C2_Witness ==
    \E c \in Conns :
        /\ pfxBuffer = NullBuf /\ CERT_PASSWORD = GoodPassword
        /\ rq[c].method = "POST" /\ rq[c].url = Url(PathProxy, NoSearch)
        /\ API_KEY = "abc" /\ rq[c].headers.xApiKey = "abc"
        /\ rq[c].res.statusCode = 500
        /\ rq[c].res.json.details = "OCES3_CERTIFICATE_BASE64 not set"

\* C3: an outbound attempt is made for a request only if the request passed
\* the five gate checks: not OPTIONS, not a diagnostics route, key matching
\* when one is configured, POST to a path starting with /proxy, credential
\* and passphrase both set.
C3_AttemptOnlyAfterGate ==
    \A c \in Conns :
        rq[c].calls > 0 \/ rq[c].out # NoOutbound \/ rq[c].pc = "collecting"
            => /\ ~Ungated(rq[c])
               /\ ~KeyMismatch(rq[c])
               /\ rq[c].method = "POST"
               /\ Len(rq[c].url.path) >= 6
               /\ SubSeq(rq[c].url.path, 1, 6) = PathProxy
               /\ pfxBuffer # NullBuf
               /\ CERT_PASSWORD # Undefined /\ CERT_PASSWORD # ""

C3_Witness ==
    \E c \in Conns :
        /\ rq[c].pc = "sent" /\ rq[c].calls = 1
        /\ API_KEY = "abc" /\ rq[c].headers.xApiKey = "abc"
        /\ rq[c].url = Url(PathProxyZ, NoSearch)

\* C4: an OPTIONS request is answered 200 with an empty body, whatever its
\* path and key and whatever the configured key and the credential state;
\* its body is not read and nothing is forwarded.
C4_PreflightAlways200 ==
    \A c \in Conns :
        Present(rq[c]) /\ rq[c].method = "OPTIONS"
            => /\ rq[c].res = Response(200, Undefined, NoJson, <<>>)
               /\ rq[c].pc = "closed"
               /\ rq[c].inBytes = <<>>
               /\ NoOutboundAttempt(rq[c])

C4_Witness ==
    \E c \in Conns :
        /\ rq[c].method = "OPTIONS" /\ rq[c].url = Url(PathProxy, NoSearch)
        /\ API_KEY = "abc" /\ rq[c].headers.xApiKey = "wrong"
        /\ pfxBuffer = NullBuf
        /\ rq[c].res.statusCode = 200 /\ rq[c].res.bytes = <<>>

\* C5 as stated: a request that passed the gate and whose body ended has made
\* exactly one outbound attempt.
C5_ExactlyOneAttempt ==
    \A c \in Conns : rq[c].ended => rq[c].calls = 1

\* C5 amended: a request makes no outbound attempt before its body has ended
\* and at most one after, with no retry after an outbound failure; it makes
\* exactly one unless parsing its URL throws (a Host header that is no valid
\* authority), in which case it makes none.
C5_OneAttemptUnlessUrlThrows ==
    \A c \in Conns :
        /\ ~rq[c].ended => rq[c].calls = 0
        /\ rq[c].ended =>
              rq[c].calls = (IF rq[c].headers.host = "bad host" THEN 0 ELSE 1)
        /\ rq[c].calls <= attempts

\* the second of two forward requests has made its own attempt, which
\* failed and was not retried
C5_Witness ==
    \E c \in Conns :
        /\ attempts = 2 /\ rq[c].calls = 1
        /\ rq[c].upErr = "ECONNREFUSED"

\* no event of the request is pending any more
Quiescent(r) == r.pc \in {"closed", "aborted"}

\* C6: every request that passed the gate ends relayed or error-relayed: once
\* no event of the request is pending, the caller has received a response.
C6_GatePassedIsAnswered ==
    \A c \in Conns : Quiescent(rq[c]) => rq[c].res # NoResponse

\* the upstream answered and its response ended without a failure
UpstreamAnswered(r) ==
    r.pc = "closed" /\ r.upStatus # 0 /\ r.upErr = Undefined

\* C7: when the upstream returns status S, body B and content-type T, the
\* caller receives status S, the bytes of B whatever the chunks B came in,
\* and content-type T, or text/xml when the upstream sent none.
C7_RelayIsExact ==
    \A c \in Conns :
        UpstreamAnswered(rq[c])
            => /\ rq[c].res.statusCode = rq[c].upStatus
               /\ rq[c].res.bytes = rq[c].upBytes
               /\ rq[c].res.contentType =
                    (IF rq[c].upContentType = Undefined THEN "text/xml"
                     ELSE rq[c].upContentType)

\* the details the claim gives for each error code
ClassifiedDetails(code) ==
    CASE code = "ERR_OSSL_PKCS12_MAC_VERIFY_FAILURE" ->
            "Certificate password is incorrect"
      [] code = "ERR_OSSL_PKCS12_PKCS12_PFX_PDU_PARSING_ERROR" ->
            "Certificate file is corrupted or invalid"
      [] code = "ECONNREFUSED" -> "Connection refused by SKAT server"
      [] code = "ETIMEDOUT" -> "Connection to SKAT timed out"
      [] code = "ECONNRESET" -> "read ECONNRESET"

C9_DiagnosticsBypassGate ==
    \A c \in Conns :
        /\ Present(rq[c]) /\ rq[c].method = "GET"
              /\ rq[c].url \in {Url(PathHealth, NoSearch), Url(PathDebug, NoSearch)}
            => /\ rq[c].res.statusCode = 200
               /\ rq[c].res.contentType = "application/json"
               /\ NoOutboundAttempt(rq[c])
        /\ Present(rq[c]) /\ rq[c].method = "GET"
              /\ rq[c].url = Url(PathHealth, NoSearch)
            => /\ rq[c].res.json.status \in {"ok", "degraded"}
               /\ rq[c].res.json.status = "degraded" <=> certError # Null

C9_Witness ==
    \E c \in Conns :
        /\ rq[c].method = "GET" /\ rq[c].url = Url(PathHealth, NoSearch)
        /\ API_KEY = "abc" /\ rq[c].headers.xApiKey = "wrong"
        /\ pfxBuffer = GoodPfx /\ CERT_PASSWORD = Undefined
        /\ rq[c].res.statusCode = 200 /\ rq[c].res.json.status = "degraded"

\* C10 as stated: an exception raised while preparing or sending the outbound
\* request, and a failure while reading the inbound stream, are both answered
\* with an internal error, 500.
C10_AnyFailureIs500 ==
    \A c \in Conns :
        rq[c].threw # Undefined \/ rq[c].inErr => rq[c].res.statusCode = 500

\* C10 amended: an exception thrown while preparing or sending the outbound
\* request is caught and answered 500 'Internal proxy error' with the
\* exception's message; a failure while reading the inbound stream is answered
\* 400 'Request error'; either way nothing escapes the handler and the
\* connection is free for the next request.
C10_ThrownIs500InboundErrorIs400 ==
    \A c \in Conns :
        /\ rq[c].threw # Undefined
            => rq[c].res =
                 JsonResponse(500,
                    [NoJson EXCEPT !.error = "Internal proxy error",
                                   !.details = Message(rq[c].threw)])
        /\ rq[c].inErr
            => rq[c].res =
                 JsonResponse(400,
                    [NoJson EXCEPT !.error = "Request error", !.details = "aborted"])
        /\ rq[c].threw # Undefined \/ rq[c].inErr
            => rq[c].uncaught = 0 /\ rq[c].pc = "closed" /\ ENABLED Finish(c)

\* a request is answered 500 for a thrown exception after an earlier request
\* had already reached https.request
C10_Witness ==
    \E c \in Conns :
        /\ attempts = 1 /\ rq[c].calls = 0
        /\ rq[c].threw = "ERR_INVALID_URL"
        /\ rq[c].res.statusCode = 500

\* the configured bundle is well-formed base64: groups of four characters of
\* the alphabet, the last group padded with at most two '='
WellFormedBase64(s) ==
    /\ Len(s) > 0 /\ Len(s) % 4 = 0
    /\ \A i \in 1..Len(s) :
          \/ B64Index(s[i]) >= 0
          \/ /\ s[i] = "="
             /\ i >= Len(s) - 1
             /\ \A j \in i..Len(s) : s[j] = "="

BundleUnset == "OCES3_CERTIFICATE_BASE64 not set"
PassphraseUnset == "OCES3_CERTIFICATE_PASSWORD not set"

\* C11: a configured bundle that does not decode leaves the credential unset
\* and records a LoadError describing the decode failure; in every reachable
\* state the credential is absent, or is the decoding of a well-formed bundle.
C11_DecodeFailureLeavesUnset ==
    /\ TruthySeq(CERT_BASE64) /\ ~WellFormedBase64(CERT_BASE64)
          => /\ pfxBuffer = NullBuf
             /\ certError \notin {Null, BundleUnset, PassphraseUnset}
    /\ pfxBuffer # NullBuf
          => /\ WellFormedBase64(CERT_BASE64)
             /\ pfxBuffer = BufferFromBase64(CERT_BASE64)

\* C12: with the passphrase absent, the LoadError is the passphrase-unset one
\* only when the bundle is present and decodable; when the bundle is absent
\* or undecodable, the bundle-related LoadError is kept.  (certError holds one
\* value, so at most one LoadError is active.)
C12_PassphraseErrorKeepsBundleError ==
    ~Truthy(CERT_PASSWORD)
        => IF TruthySeq(CERT_BASE64) /\ WellFormedBase64(CERT_BASE64)
           THEN certError = PassphraseUnset
           ELSE certError \notin {Null, PassphraseUnset}

\* C13: every response written to a caller (preflight, diagnostics, 401, 405,
\* 500, 400, 502, relayed upstream response) carries the three CORS headers:
\* allow-origin *, allow-methods POST, GET, OPTIONS, and the allow-headers list.
C13_EveryResponseCarriesCors ==
    \A c \in Conns :
        rq[c].res # NoResponse
            => /\ rq[c].res.cors.allowOrigin = "*"
               /\ rq[c].res.cors.allowMethods = "POST, GET, OPTIONS"
               /\ rq[c].res.cors.allowHeaders =
                    "Content-Type, Authorization, X-API-Key, SOAPAction"

\* an upstream answer with a body has been relayed to the caller
C13_Witness ==
    \E c \in Conns :
        /\ UpstreamAnswered(rq[c])
        /\ rq[c].res.statusCode = 500 /\ rq[c].res.contentType = "text/xml"
        /\ rq[c].res.bytes = <<65, 65>>
        /\ rq[c].res.cors.allowOrigin = "*"

\* the request carries a `path` query parameter
CarriesPath(r) == r.url.search # NoSearch /\ Head(r.url.search).k = "path"
\* its value
PathParam(r) == Head(r.url.search).v

\* the outbound request goes to the fixed upstream
FixedUpstream(out) ==
    out.hostname = "ei-indberetning.skat.dk" /\ out.port = 444

\* C14 as stated: the outbound path is the `path` query parameter when the
\* request carries one, the default path when it carries none; the outbound
\* host and port are the fixed upstream.
C14_PathIsParamWhenCarried ==
    \A c \in Conns :
        rq[c].out # NoOutbound
            => /\ rq[c].out.path =
                    (IF CarriesPath(rq[c]) THEN PathParam(rq[c])
                     ELSE <<"/B2B/EIndkomst/EIndkomstServiceFunctionBinding">>)
               /\ FixedUpstream(rq[c].out)

\* C14 amended: the outbound path is the `path` query parameter when the
\* request carries a non-empty one, the default path when it carries none or
\* an empty one; the outbound host and port are the fixed upstream whatever
\* the request contains.
C14_PathIsNonEmptyParamElseDefault ==
    \A c \in Conns :
        rq[c].out # NoOutbound
            => /\ rq[c].out.path =
                    (IF CarriesPath(rq[c]) /\ PathParam(rq[c]) # <<>>
                     THEN PathParam(rq[c])
                     ELSE <<"/B2B/EIndkomst/EIndkomstServiceFunctionBinding">>)
               /\ FixedUpstream(rq[c].out)

C14_Witness ==
    \E c \in Conns :
        /\ rq[c].pc = "sent"
        /\ rq[c].url = Url(PathProxy, Param("path", CustomPath))
        /\ rq[c].headers.host = "relay.local"
        /\ rq[c].out.path = CustomPath

\* C15: a request that is not OPTIONS, not a diagnostics route, and passes
\* the API-key check is answered 405 when its method is not POST or its path
\* does not start with /proxy, whatever the credential state; a POST whose
\* path starts with /proxy is never answered 405.
C15_RoutingBeforeCredential ==
    \A c \in Conns :
        Present(rq[c]) /\ ~Ungated(rq[c]) /\ ~KeyMismatch(rq[c])
            => IF rq[c].method # "POST"
                  \/ Len(rq[c].url.path) < 6
                  \/ SubSeq(rq[c].url.path, 1, 6) # PathProxy
               THEN /\ rq[c].res =
                         JsonResponse(405,
                            [NoJson EXCEPT !.error = "Method not allowed",
                                           !.method = rq[c].method,
                                           !.url = rq[c].url])
                    /\ NoOutboundAttempt(rq[c])
               ELSE rq[c].res.statusCode # 405

\* a GET to /proxy with the right key, while no credential is loaded
C15_Witness ==
    \E c \in Conns :
        /\ rq[c].method = "GET" /\ rq[c].url = Url(PathProxy, NoSearch)
        /\ API_KEY = "abc" /\ rq[c].headers.xApiKey = "abc"
        /\ pfxBuffer = NullBuf /\ CERT_PASSWORD = Undefined
        /\ rq[c].res.statusCode = 405

\* the response on the wire is the relay of an upstream response
IsRelayed(r) ==
    r.res # NoResponse /\ r.res.contentType # "application/json"
        /\ r.method # "OPTIONS"

\* C16: per request the steps happen in order.  The inbound body is read only
\* after the gate was passed; the outbound request is created only after the
\* inbound body has ended, with the whole buffered body as its payload; the
\* upstream status and body are written to the caller only after the upstream
\* response body has ended, and are the whole buffered response.
C16_StepsInOrder ==
    \A c \in Conns :
        /\ rq[c].pc = "collecting"
              => ~rq[c].ended /\ rq[c].calls = 0 /\ rq[c].out = NoOutbound
                    /\ rq[c].res = NoResponse
        /\ rq[c].inBytes # <<>> \/ rq[c].ended
              => ~Ungated(rq[c]) /\ ~KeyMismatch(rq[c]) /\ rq[c].method = "POST"
        /\ rq[c].calls > 0 \/ rq[c].out # NoOutbound => rq[c].ended
        /\ rq[c].out # NoOutbound
              => /\ rq[c].out.payload = Utf8Encode(rq[c].body)
                 /\ rq[c].out.contentLength = Len(rq[c].out.payload)
        /\ rq[c].upStatus # 0 => rq[c].out # NoOutbound
        /\ rq[c].pc \in {"sent", "responding"} => rq[c].res = NoResponse
        /\ IsRelayed(rq[c])
              => /\ rq[c].pc = "closed"
                 /\ rq[c].upStatus # 0
                 /\ rq[c].res.statusCode = rq[c].upStatus
                 /\ rq[c].res.bytes = Utf8Encode(rq[c].responseBody)

\* a request with a body was forwarded and its upstream response, which came
\* in two chunks, was relayed
C16_Witness ==
    \E c \in Conns :
        /\ rq[c].inBytes = <<65>> /\ rq[c].out.payload = <<65>>
        /\ rq[c].upBytes = <<65, 65>> /\ rq[c].upStatus = 200
        /\ rq[c].pc = "closed" /\ rq[c].res.statusCode = 200
        /\ rq[c].res.bytes = <<65, 65>>

\* C17: the credential, the passphrase, the API key and the LoadError are set
\* once at startup; no step of any request, under any interleaving of the
\* steps of concurrent requests, changes any of them (nor the configured
\* bundle they were loaded from).
C17_ConfigNeverWritten ==
    [][ /\ pfxBuffer' = pfxBuffer
        /\ CERT_PASSWORD' = CERT_PASSWORD
        /\ API_KEY' = API_KEY
        /\ certError' = certError
        /\ CERT_BASE64' = CERT_BASE64 ]_vars

\* two requests are in flight at once: one failed on its inbound stream and
\* was answered, while the other, forwarded, is receiving its upstream
\* response; the process-scope state is still what startup made it
C17_Witness ==
    /\ rq[1].inErr /\ rq[1].res.statusCode = 400
    /\ rq[2].pc = "responding" /\ rq[2].upBytes = <<65>>
    /\ pfxBuffer = GoodPfx /\ certError = Null
    /\ CERT_PASSWORD = GoodPassword /\ API_KEY = "abc"

\* C18: concurrent requests are independent.  For every request, under any
\* interleaving with the events of another: the body sent upstream is the
\* request's own inbound body; a relayed response carries the request's own
\* upstream status, an error response the request's own upstream error; and
\* while another request never completes (its upstream went silent), the
\* request is answered all the same.
C18_RequestsAreIndependent ==
    \A c \in DOMAIN rq :
        /\ rq[c].out # NoOutbound => rq[c].out.payload = rq[c].inBytes
        /\ UpstreamAnswered(rq[c]) => rq[c].res.statusCode = rq[c].upStatus
        /\ rq[c].upErr # Undefined => rq[c].res.json.code = rq[c].upErr
        /\ rq[c].pc = "responding"
              /\ (\E d \in DOMAIN rq : d # c /\ rq[d].pc = "aborted")
              => ENABLED UpEnd(c)

\* C19: at most one response is written per inbound request: whatever the
\* order of the inbound error and end events and of the upstream response-end
\* and request-error events, writeHead is called no more than once.
C19_AtMostOneWriteHead ==
    \A c \in Conns : rq[c].writeHeads <= 1

\* the credential and the passphrase are both set
CredentialAndPassphraseSet ==
    pfxBuffer # NullBuf /\ CERT_PASSWORD # Undefined /\ CERT_PASSWORD # ""

\* C20: the LoadError is absent exactly when the credential and the
\* passphrase are both set; so GET /health reports "ok" exactly when the
\* gate's credential check passes, and every 500 'Certificate not configured'
\* carries the LoadError as its details, never the fallback text.
C20_LoadErrorIffNotReady ==
    /\ certError = Null <=> CredentialAndPassphraseSet
    /\ \A c \in Conns :
          /\ Present(rq[c]) /\ rq[c].method = "GET"
                /\ rq[c].url = Url(PathHealth, NoSearch)
              => (rq[c].res.json.status = "ok" <=> CredentialAndPassphraseSet)
          /\ rq[c].res.json.error = "Certificate not configured"
              => /\ rq[c].res.statusCode = 500
                 /\ ~CredentialAndPassphraseSet
                 /\ rq[c].res.json.details = certError
                 /\ rq[c].res.json.details \in {BundleUnset, PassphraseUnset}

\* a bundle is loaded, the passphrase is not set, and a forward request was
\* answered 500 with the passphrase LoadError
C20_Witness ==
    \E c \in Conns :
        /\ pfxBuffer = GoodPfx /\ CERT_PASSWORD = Undefined
        /\ rq[c].method = "POST" /\ rq[c].url = Url(PathProxy, NoSearch)
        /\ rq[c].res.statusCode = 500
        /\ rq[c].res.json.error = "Certificate not configured"
        /\ rq[c].res.json.details = PassphraseUnset

====
